---- MODULE Spec2Model ----
(***************************************************************************)
(* Model of src/Loop.py: the sequential spec runner.  main() walks the     *)
(* sorted *.md documents of SPECS_DIR, sends each one to the external      *)
(* agent (run_claude), gates on VERIFY_COMMANDS (run_cmd), and records the *)
(* document's name in STATE_FILE (save_state).                             *)
(*                                                                         *)
(* A document name is a sequence of character codes; sorted() orders the   *)
(* names lexicographically.  The text of STATE_FILE is a sequence of       *)
(* symbols: the character codes of the names and the JSON punctuation.     *)
(* An action is the code main() runs between two blocking calls.           *)
(***************************************************************************)
EXTENDS Integers, Sequences, FiniteSets, TLC

\* ---------------------------------------------------------------- bounds
MaxChar == 2          \* character codes of a name are 1..MaxChar
MaxUnits == 3         \* at most MaxUnits entries in SPECS_DIR
MaxRuns == 3          \* main() is started at most MaxRuns times
MaxExitCode == 1      \* an external process exits with 0..MaxExitCode
MaxDone == 2          \* length of a "done" list found in STATE_FILE at first start

VARIABLES
    dirExists,   \* SPECS_DIR.exists()
    dir,         \* the entries of SPECS_DIR
    file,        \* STATE_FILE: [exists, text]
    pc,          \* where main() is
    state,       \* main's local `state`
    spec,        \* main's local `spec` (its name), None before a selection
    vi,          \* index in VERIFY_COMMANDS of the command being run
    log,         \* history: what this run did, in order
    runs,        \* history: number of runs started
    passed,      \* history: names for which some run saw the agent and every command exit 0
    prev,        \* history: how the previous run ended
    selFile,     \* history: STATE_FILE as it was at the last selection
    out          \* what this run told its caller: the last outcome message
                 \* printed, the exit status, and whether load_state was called

vars == <<dirExists, dir, file, pc, state, spec, vi, log, runs, passed, prev,
          selFile, out>>

\* ---------------------------------------------------------------- names
Chars == 1..MaxChar

\* the names of the model: one character, or one character followed by the
\* least one, so that a name can be a proper prefix of another
Names == {<<c>> : c \in Chars} \cup {<<c, 1>> : c \in Chars}

None == <<>>

\* str.__lt__ as used by sorted(): lexicographic on character codes
LexLess(a, b) ==
    \E i \in 1..(Len(a) + 1) :
        /\ i <= Len(b)
        /\ \A j \in 1..(i - 1) : a[j] = b[j]
        /\ (i = Len(a) + 1 \/ a[i] < b[i])

\* a directory entry; ext is what follows the last dot of the file name
Entries == [name : Names, ext : {"md"}] \cup {[name |-> <<1>>, ext |-> "txt"]}

\* SPECS_DIR.glob("*")
GlobAll(d) == {e.name : e \in d}

\* SPECS_DIR.glob("*.md")
Glob(d) == {e.name : e \in {x \in d : x.ext = "md"}}

\* sorted(..., reverse=True)
RECURSIVE sortedReverse(_)
sortedReverse(S) ==
    IF S = {} THEN <<>>
    ELSE LET m == CHOOSE x \in S : \A y \in S \ {x} : LexLess(y, x)
         IN  <<m>> \o sortedReverse(S \ {m})

RECURSIVE sorted(_)
sorted(S) ==
    IF S = {} THEN <<>>
    ELSE LET m == CHOOSE x \in S : \A y \in S \ {x} : LexLess(x, y)
         IN  <<m>> \o sorted(S \ {m})

\* the membership test compares the Path with the names and never matches
InListPath(x, l) == FALSE

\* only the first entry of the list is compared
InListFirst(x, l) == l # <<>> /\ l[1] = x

\* `name in done` for a list
InList(x, l) == \E i \in 1..Len(l) : l[i] = x

\* the scan gives up at the first document that is already done
RECURSIVE FirstNotInStop(_, _)
FirstNotInStop(specs, done) ==
    IF specs = <<>> THEN None
    ELSE IF \E i \in 1..Len(done) : done[i] = Head(specs) THEN None
    ELSE Head(specs)

\* the scan does not return at the first match and ends on the last one
RECURSIVE FirstNotInLast(_, _)
FirstNotInLast(specs, done) ==
    IF specs = <<>> THEN None
    ELSE LET later == FirstNotInLast(Tail(specs), done)
         IN  IF later # None THEN later
             ELSE IF \E i \in 1..Len(done) : done[i] = Head(specs) THEN None
             ELSE Head(specs)

RECURSIVE FirstNotIn(_, _)
FirstNotIn(specs, done) ==
    IF specs = <<>> THEN None
    ELSE IF ~InList(Head(specs), done) THEN Head(specs)
    ELSE FirstNotIn(Tail(specs), done)

get_next_spec(d, done) == FirstNotIn(sorted(Glob(d)), done)

\* ---------------------------------------------------------------- STATE_FILE
LBrace == 0 - 1
KeyDone == 0 - 2
LBracket == 0 - 3
RBracket == 0 - 4
RBrace == 0 - 5
Quote == 0 - 6
Comma == 0 - 7

RECURSIVE DumpsItems(_)
DumpsItems(l) ==
    IF l = <<>> THEN <<>>
    ELSE IF Len(l) = 1 THEN <<Quote>> \o l[1] \o <<Quote>>
    ELSE <<Quote>> \o l[1] \o <<Quote, Comma>> \o DumpsItems(Tail(l))

\* json.dumps(state, indent=2), white space left out
dumps(st) == <<LBrace, KeyDone, LBracket>> \o DumpsItems(st.done) \o <<RBracket, RBrace>>

\* parse the inside of a JSON array of strings
RECURSIVE LoadsItems(_)
LoadsItems(t) ==
    IF t = <<>> THEN [ok |-> FALSE, done |-> <<>>]
    ELSE IF t[1] # Quote \/ ~\E i \in 2..Len(t) : t[i] = Quote
         THEN [ok |-> FALSE, done |-> <<>>]
    ELSE LET close == CHOOSE i \in 2..Len(t) :
                          t[i] = Quote /\ \A j \in 2..(i - 1) : t[j] # Quote
             str   == SubSeq(t, 2, close - 1)
             rest  == SubSeq(t, close + 1, Len(t))
         IN  IF \E j \in 1..Len(str) : str[j] < 1
                 THEN [ok |-> FALSE, done |-> <<>>]
             ELSE IF rest = <<>> THEN [ok |-> TRUE, done |-> <<str>>]
             ELSE IF rest[1] # Comma THEN [ok |-> FALSE, done |-> <<>>]
             ELSE LET r == LoadsItems(Tail(rest))
                  IN  [ok |-> r.ok, done |-> <<str>> \o r.done]

\* json.loads(text) followed by the state["done"] lookup: ok is FALSE where
\* json.loads raises
loads(t) ==
    IF Len(t) < 5 THEN [ok |-> FALSE, done |-> <<>>]
    ELSE IF SubSeq(t, 1, 3) # <<LBrace, KeyDone, LBracket>>
            \/ SubSeq(t, Len(t) - 1, Len(t)) # <<RBracket, RBrace>>
         THEN [ok |-> FALSE, done |-> <<>>]
    ELSE IF Len(t) = 5 THEN [ok |-> TRUE, done |-> <<>>]
    ELSE LoadsItems(SubSeq(t, 4, Len(t) - 2))

Absent == [exists |-> FALSE, text |-> <<>>]

\* a text that does not parse is taken for no progress
load_stateForgiving(f) ==
    IF f.exists /\ loads(f.text).ok THEN loads(f.text)
    ELSE [ok |-> TRUE, done |-> <<>>]

load_state(f) ==
    IF f.exists THEN loads(f.text)
    ELSE [ok |-> TRUE, done |-> <<>>]

\* the state is saved before the append
save_stateStale(st) ==
    [exists |-> TRUE,
     text |-> dumps([done |-> SubSeq(st.done, 1, Len(st.done) - 1)])]

save_state(st) == [exists |-> TRUE, text |-> dumps(st)]

\* ---------------------------------------------------------------- commands
VERIFY_COMMANDS == <<"tsc", "build">>

ExitCodes == 0..MaxExitCode

Event(op, s, k, c) == [op |-> op, spec |-> s, cmd |-> k, code |-> c]

\* names for which the run logged the agent exiting 0 and then every
\* verification command, in order, exiting 0
FullyPassed(l) ==
    {u \in Names :
        \E i \in 1..Len(l) :
            /\ l[i] = Event("claude", u, 0, 0)
            /\ i + Len(VERIFY_COMMANDS) <= Len(l)
            /\ \A k \in 1..Len(VERIFY_COMMANDS) : l[i + k] = Event("verify", u, k, 0)}

NoEvent == Event("none", None, 0, 0)

LastEvent(l) == IF l = <<>> THEN NoEvent ELSE l[Len(l)]

NoPrev == [pc |-> "none", spec |-> None, last |-> NoEvent]

\* if code < 0
AgentFailedNeg(code) == code < 0

\* line 109: if code != 0
AgentFailed(code) == code # 0

\* the result of run_cmd is dropped
VerifyFailedNever(rc) == FALSE

\* if rc < 0
VerifyFailedNeg(rc) == rc < 0

\* line 116: if rc != 0
VerifyFailed(rc) == rc # 0

\* the loop is left after its first command
MoreCommandsBreak(k) == FALSE

\* line 114: the for loop has another command after the k-th
MoreCommands(k) == k < Len(VERIFY_COMMANDS)

\* `continue` in the place of `return`
HaltPcContinue == "selecting"

\* a failure starts the document over
HaltPcRetry == "claude"

\* lines 111 and 118: `return` leaves main() after a failure
HaltPc == "halted"

\* ---------------------------------------------------------------- output
\* line 71
MsgFolderMissing == "Specs folder not found"

\* line 79
MsgAllCompleted == "All specs completed."

\* the traceback of an exception nothing catches
MsgTraceback == "Traceback"

\* both failures print the completion message
HaltMessageCompleted(op) == MsgAllCompleted

\* lines 110 and 117: the message printed before `return`
HaltMessage(op) ==
    IF op = "claude" THEN "Claude execution failed. Stopping."
    ELSE "Verification failed. Fix before continuing."

NoOut == [msg |-> "", status |-> 0, loaded |-> FALSE]

\* the folder check is left out
FolderMissingSkip == FALSE

\* line 70: if not SPECS_DIR.exists()
FolderMissing == ~dirExists

\* ---------------------------------------------------------------- initial states
Dirs == {d \in SUBSET Entries : Cardinality(d) <= MaxUnits}

InitWith(f) ==
    /\ dirExists \in BOOLEAN
    /\ dir \in Dirs
    /\ (~dirExists => dir = {})
    /\ file = f
    /\ pc = "start"
    /\ state = [done |-> <<>>]
    /\ spec = None
    /\ vi = 0
    /\ log = <<>>
    /\ runs = 1
    /\ passed = {}
    /\ prev = NoPrev
    /\ selFile = f
    /\ out = NoOut

\* first start: no STATE_FILE
Init == InitWith(Absent)

\* a start that finds a STATE_FILE written earlier, for another content of
\* the folder or edited by the operator: any list of at most MaxDone names,
\* each a document of the folder or the stale name <<MaxChar>>
RECURSIVE ListsUpTo(_, _)
ListsUpTo(S, n) ==
    IF n = 0 THEN {<<>>}
    ELSE LET shorter == ListsUpTo(S, n - 1)
         IN  shorter \cup {Append(l, x) : l \in shorter, x \in S}

InitAny ==
    \E f \in {Absent} \cup
              {save_state([done |-> l]) : l \in ListsUpTo(Names, MaxDone)} :
        /\ InitWith(f)
        /\ f.exists =>
              /\ dirExists
              /\ \A i \in 1..Len(load_state(f).done) :
                    load_state(f).done[i] \in Glob(dir) \cup {<<MaxChar>>}

\* ---------------------------------------------------------------- main()
\* lines 69-74: the folder check and load_state
Start ==
    /\ pc = "start"
    /\ IF FolderMissing
          THEN /\ pc' = "exit1"
               /\ out' = [out EXCEPT !.msg = MsgFolderMissing, !.status = 1]
               /\ UNCHANGED state
          ELSE LET r == load_state(file)
               IN  IF r.ok
                      THEN /\ state' = [done |-> r.done]
                           /\ pc' = "selecting"
                           /\ out' = [out EXCEPT !.loaded = TRUE]
                      ELSE /\ pc' = "error"
                           /\ out' = [msg |-> MsgTraceback, status |-> 1,
                                      loaded |-> TRUE]
                           /\ UNCHANGED state
    /\ UNCHANGED <<dirExists, dir, file, spec, vi, log, runs, passed, prev, selFile>>

\* get_next_spec appends the name it returns to the list it was given
SelectConsume ==
    /\ pc = "selecting"
    /\ LET s == get_next_spec(dir, state.done)
       IN  IF s = None
              THEN /\ pc' = "done"
                   /\ out' = [out EXCEPT !.msg = MsgAllCompleted, !.status = 0]
                   /\ UNCHANGED <<spec, log, selFile, state>>
              ELSE /\ spec' = s
                   /\ pc' = "claude"
                   /\ log' = Append(log, Event("select", s, 0, 0))
                   /\ selFile' = file
                   /\ state' = [done |-> Append(state.done, s)]
                   /\ UNCHANGED out
    /\ UNCHANGED <<dirExists, dir, file, vi, runs, passed, prev>>

\* lines 77-105: get_next_spec, and the prompt of the selected document
Select ==
    /\ pc = "selecting"
    /\ LET s == get_next_spec(dir, state.done)
       IN  IF s = None
              THEN /\ pc' = "done"
                   /\ out' = [out EXCEPT !.msg = MsgAllCompleted, !.status = 0]
                   /\ UNCHANGED <<spec, log, selFile>>
              ELSE /\ spec' = s
                   /\ pc' = "claude"
                   /\ log' = Append(log, Event("select", s, 0, 0))
                   /\ selFile' = file
                   /\ UNCHANGED out
    /\ UNCHANGED <<dirExists, dir, file, state, vi, runs, passed, prev>>

\* lines 108-111: run_claude returns
RunClaude ==
    /\ pc = "claude"
    /\ \E code \in ExitCodes :
          /\ log' = Append(log, Event("claude", spec, 0, code))
          /\ IF AgentFailed(code)
                THEN /\ pc' = HaltPc
                     /\ out' = [out EXCEPT !.msg = HaltMessage("claude"),
                                           !.status = 0]
                     /\ UNCHANGED vi
                ELSE /\ pc' = "verify"
                     /\ vi' = 1
                     /\ UNCHANGED out
    /\ UNCHANGED <<dirExists, dir, file, state, spec, runs, passed, prev, selFile>>

\* state["done"] = [spec.name]
MarkDoneOverwrite(st, s) == [done |-> <<s>>]

\* lines 120-122: state["done"].append(spec.name)
MarkDone(st, s) == [done |-> Append(st.done, s)]

\* lines 114-125: run_cmd returns for VERIFY_COMMANDS[vi]; after the last
\* command the document is marked done and the state saved
RunCmd ==
    /\ pc = "verify"
    /\ \E rc \in ExitCodes :
          LET l1 == Append(log, Event("verify", spec, vi, rc))
          IN  IF VerifyFailed(rc)
                 THEN /\ pc' = HaltPc
                      /\ log' = l1
                      /\ out' = [out EXCEPT !.msg = HaltMessage("verify"),
                                            !.status = 0]
                      /\ UNCHANGED <<vi, state, file, passed>>
              ELSE IF MoreCommands(vi)
                 THEN /\ vi' = vi + 1
                      /\ log' = l1
                      /\ UNCHANGED <<pc, state, file, passed, out>>
              ELSE /\ state' = MarkDone(state, spec)
                   /\ file' = save_state(state')
                   /\ log' = Append(l1, Event("save", spec, 0, 0))
                   /\ passed' = passed \cup FullyPassed(l1)
                   /\ vi' = 0
                   /\ pc' = "selecting"
                   /\ UNCHANGED out
    /\ UNCHANGED <<dirExists, dir, spec, runs, prev, selFile>>

Terminal == {"done", "halted", "exit1", "error", "crashed"}

\* the operator starts main() again
Restart ==
    /\ pc \in Terminal
    /\ runs < MaxRuns
    /\ runs' = runs + 1
    /\ prev' = [pc |-> pc, spec |-> spec, last |-> LastEvent(log)]
    /\ pc' = "start"
    /\ state' = [done |-> <<>>]
    /\ spec' = None
    /\ vi' = 0
    /\ log' = <<>>
    /\ out' = NoOut
    /\ UNCHANGED <<dirExists, dir, file, passed, selFile>>

Next == Start \/ Select \/ RunClaude \/ RunCmd \/ Restart

Spec == Init /\ [][Next]_vars

\* one run of main()
NextRun == Start \/ Select \/ RunClaude \/ RunCmd

SpecAny == InitAny /\ [][NextRun]_vars

\* the texts a write_text(text) interrupted by a crash can leave: open()
\* has truncated the file, and any part of the text may have reached it
WriteOutcomes(text) == {SubSeq(text, 1, n) : n \in 0..Len(text)}

\* lines 120-122 when the process dies inside save_state
CrashInSave ==
    /\ pc = "verify"
    /\ ~MoreCommands(vi)
    /\ \E rc \in ExitCodes :
          /\ ~VerifyFailed(rc)
          /\ log' = Append(log, Event("verify", spec, vi, rc))
    /\ state' = MarkDone(state, spec)
    /\ \E t \in WriteOutcomes(dumps(state')) :
          file' = [exists |-> TRUE, text |-> t]
    /\ pc' = "crashed"
    /\ out' = [out EXCEPT !.status = 0 - 9]
    /\ UNCHANGED <<dirExists, dir, spec, vi, runs, passed, prev, selFile>>

NextCrash == Next \/ CrashInSave

SpecCrash == Init /\ [][NextCrash]_vars

\* every blocking call returns and main() runs on
SpecLive ==
    /\ Init
    /\ [][NextRun]_vars
    /\ WF_vars(Start)
    /\ WF_vars(Select)
    /\ WF_vars(RunClaude)
    /\ WF_vars(RunCmd)

\* ================================================================ properties
ToSet(l) == {l[i] : i \in 1..Len(l)}

\* the completed set a load of STATE_FILE returns
PersistedSet == ToSet(load_state(file).done)

\* the documents of the folder not in main's completed list
Pending == Glob(dir) \ ToSet(state.done)

IsFirstOf(r, S) == r \in S /\ \A y \in S \ {r} : LexLess(r, y)

IsAscending(l) == \A i, j \in 1..Len(l) : i < j => LexLess(l[i], l[j])

NumSaves(l) == Cardinality({i \in 1..Len(l) : l[i].op = "save"})

\* the completed list this run loaded at its start
LoadedDone == SubSeq(state.done, 1, Len(state.done) - NumSaves(log))

\* C1: starting without STATE_FILE, in every state a name is in the
\* persisted completed set exactly when some run (an earlier one or this
\* one) saw the agent exit 0 for it and then every verification command
\* exit 0 for it; agent success alone or a part of the commands is never
\* recorded.
C1_CompleteIffFullyPassed ==
    /\ load_state(file).ok
    /\ PersistedSet = passed \cup FullyPassed(log)

\* a later run halted on the last verification command of a document while
\* an earlier document is recorded
C1_Witness ==
    /\ runs > 1
    /\ pc = "halted"
    /\ LastEvent(log).op = "verify"
    /\ LastEvent(log).cmd = Len(VERIFY_COMMANDS)
    /\ LastEvent(log).spec \notin PersistedSet
    /\ PersistedSet # {}

\* C2: after a crash inside save_state, load_state returns the record of
\* before the commit or the record of after it, never fails on a truncated
\* or empty text.
C2_AtomicCommit ==
    pc = "crashed" =>
        /\ load_state(file).ok
        /\ load_state(file).done \in
              {state.done, SubSeq(state.done, 1, Len(state.done) - 1)}

\* C3: an agent exit code other than 0 ends the run at once: it is the
\* last thing the run did, no verification command ran and nothing was
\* saved for the document, STATE_FILE is what it was at the selection, and
\* the next run selects the same document first.
C3_AgentFailureHalts ==
    /\ \A i \in 1..Len(log) :
          (log[i].op = "claude" /\ log[i].code # 0) =>
              /\ i = Len(log)
              /\ pc = "halted"
              /\ spec = log[i].spec
              /\ file = selFile
              /\ spec \notin PersistedSet
              /\ \A j \in 1..Len(log) :
                    log[j].spec = spec => log[j].op \notin {"verify", "save"}
    /\ (prev.pc = "halted" /\ prev.last.op = "claude"
            /\ pc \notin {"start", "selecting"}) =>
          /\ log # <<>>
          /\ log[1] = Event("select", prev.spec, 0, 0)

\* the run after an agent failure has selected the document again, with
\* the earlier documents still recorded
C3_Witness ==
    /\ prev.pc = "halted"
    /\ prev.last.op = "claude"
    /\ pc = "claude"
    /\ spec = prev.spec
    /\ PersistedSet # {}

\* C4: a verification command exiting with another code than 0, the last
\* one included, ends the run without a commit: STATE_FILE is what it was
\* at the selection, and the next run selects the same document first,
\* runs the agent for it again and then the first verification command.
C4_VerifyFailureHalts ==
    /\ \A i \in 1..Len(log) :
          (log[i].op = "verify" /\ log[i].code # 0) =>
              /\ i = Len(log)
              /\ pc = "halted"
              /\ spec = log[i].spec
              /\ file = selFile
              /\ spec \notin PersistedSet
    /\ (prev.pc = "halted" /\ prev.last.op = "verify"
            /\ pc \notin {"start", "selecting"}) =>
          /\ log # <<>>
          /\ log[1] = Event("select", prev.spec, 0, 0)
          /\ Len(log) >= 2 => (log[2].op = "claude" /\ log[2].spec = prev.spec)
          /\ Len(log) >= 3 =>
                (log[3].op = "verify" /\ log[3].spec = prev.spec /\ log[3].cmd = 1)

\* the run after a failure of the last command is back at the first command
\* of the same document
C4_Witness ==
    /\ prev.pc = "halted"
    /\ prev.last.op = "verify"
    /\ prev.last.cmd = Len(VERIFY_COMMANDS)
    /\ pc = "verify"
    /\ vi = 1
    /\ spec = prev.spec
    /\ PersistedSet # {}

\* C5: get_next_spec returns the first document in ascending name order
\* whose name is not in the completed list, and None exactly when every
\* document is in it; with an empty list and a folder that has documents it
\* returns the lexicographically first one.  What main() selected is that
\* document.
C5_ResolverFirstPending ==
    LET r == get_next_spec(dir, state.done)
    IN  /\ (r = None) <=> (Pending = {})
        /\ r # None => IsFirstOf(r, Pending)
        /\ (state.done = <<>> /\ Glob(dir) # {}) => IsFirstOf(r, Glob(dir))
        /\ pc = "claude" => (spec = r /\ IsFirstOf(spec, Pending))
        /\ pc = "done" => Pending = {}

\* the selected document has a document before it and a done one after it
C5_Witness ==
    /\ pc = "claude"
    /\ \E y \in Glob(dir) : LexLess(y, spec)
    /\ \E z \in Glob(dir) \cap ToSet(state.done) : LexLess(spec, z)

\* C6: the completed set only grows: no step removes a name from the
\* persisted set, within a run no step removes one from main's list, and a
\* step that writes STATE_FILE writes the list of before with the
\* committed document appended.
C6_Monotonic ==
    [][/\ PersistedSet \subseteq ToSet(load_state(file').done)
       /\ load_state(file').ok
       /\ runs' = runs =>
             /\ Len(state.done) <= Len(state'.done)
             /\ SubSeq(state'.done, 1, Len(state.done)) = state.done
       /\ file' # file =>
             /\ state'.done = Append(state.done, spec)
             /\ load_state(file').done = state'.done]_vars

\* a commit on top of a list that already had a name
C6_Witness ==
    /\ LastEvent(log).op = "save"
    /\ Len(state.done) >= 2
    /\ load_state(file).done = state.done

\* C7: the verification commands run in their configured order, command
\* k only right after command k-1 exited 0 (the first right after the
\* agent exited 0), and a command that exits with another code is the last
\* thing the run does.
C7_ShortCircuit ==
    \A i \in 1..Len(log) :
        log[i].op = "verify" =>
            /\ i > 1
            /\ log[i].cmd \in 1..Len(VERIFY_COMMANDS)
            /\ log[i].cmd = 1 => log[i - 1] = Event("claude", log[i].spec, 0, 0)
            /\ log[i].cmd > 1 =>
                  log[i - 1] = Event("verify", log[i].spec, log[i].cmd - 1, 0)
            /\ log[i].code # 0 => i = Len(log)

\* the first command failed and the run is over
C7_Witness ==
    /\ pc = "halted"
    /\ LastEvent(log).op = "verify"
    /\ LastEvent(log).cmd = 1
    /\ LastEvent(log).cmd < Len(VERIFY_COMMANDS)

\* C8: when the folder exists and no agent call and no verification
\* command of the first run fails, the first run reaches "done" with every
\* document of the folder recorded, committed in ascending name order.
AllExitZero == runs = 1 => \A i \in 1..Len(log) : log[i].code = 0

C8_Completed ==
    /\ runs = 1
    /\ pc = "done"
    /\ ToSet(state.done) = Glob(dir)
    /\ Len(state.done) = Cardinality(Glob(dir))
    /\ IsAscending(state.done)
    /\ load_state(file).done = state.done

C8_AllPassTerminates == (dirExists /\ []AllExitZero) => <>C8_Completed

\* the first run is done with two or more documents
C8_Witness ==
    /\ C8_Completed
    /\ Len(state.done) >= 2
    /\ NumSaves(log) = Len(state.done)

\* C9: a document whose name was in the list loaded at the start of the
\* run, or was committed earlier in the run, is never selected nor sent to
\* the agent; the first selection of a run is the first document not in
\* the loaded list.
C9_NoReprocessing ==
    /\ \A i \in 1..Len(log) :
          log[i].op \in {"select", "claude"} =>
              /\ log[i].spec \notin ToSet(LoadedDone)
              /\ \A j \in 1..(i - 1) : log[j] # Event("save", log[i].spec, 0, 0)
    /\ log # <<>> =>
          /\ log[1].op = "select"
          /\ IsFirstOf(log[1].spec, Glob(dir) \ ToSet(LoadedDone))

\* the loaded list holds the first of two documents and the second one was
\* selected
C9_Witness ==
    /\ Cardinality(Glob(dir)) = 2
    /\ Len(LoadedDone) = 1
    /\ IsFirstOf(LoadedDone[1], Glob(dir))
    /\ Len(log) = 1
    /\ log[1].spec # LoadedDone[1]
    /\ pc = "claude"

\* C10: a failure of the agent or of a verification command is the last
\* thing its run does, for any document, and leaves the run in "halted";
\* a run is in "halted" only after such a failure.
C10_NoSkipAndContinue ==
    /\ \A i \in 1..Len(log) :
          log[i].code # 0 => (i = Len(log) /\ pc = "halted")
    /\ pc = "halted" => LastEvent(log).code # 0

\* the run halted on a document that has a pending document after it
C10_Witness ==
    /\ pc = "halted"
    /\ LastEvent(log).code # 0
    /\ \E y \in Pending : LexLess(spec, y)

\* the names of the *.md entries of the folder
MdNames == {e.name : e \in {x \in dir : x.ext = "md"}}

\* STATE_FILE exists and its text does not parse
Malformed == file.exists /\ ~loads(file.text).ok

NoDuplicates(l) == \A i, j \in 1..Len(l) : i # j => l[i] # l[j]

PrefixClosed(S) == \A u \in S : \A y \in MdNames : LexLess(y, u) => y \in S

\* C11: a run says "All specs completed." only in "done", where every
\* document of the folder is in the completed set; a run halted by the
\* agent or by a verification command has printed its own failure message,
\* never the completion message.
C11_DoneOnlyWhenComplete ==
    /\ pc = "done" =>
          /\ MdNames \subseteq ToSet(state.done)
          /\ MdNames \subseteq PersistedSet
          /\ out.msg = "All specs completed."
    /\ pc = "halted" =>
          /\ LastEvent(log).op = "claude" =>
                out.msg = "Claude execution failed. Stopping."
          /\ LastEvent(log).op = "verify" =>
                out.msg = "Verification failed. Fix before continuing."
          /\ LastEvent(log).op \in {"claude", "verify"}
    /\ out.msg = "All specs completed." => pc = "done"

\* a halted run with a document already recorded and one still pending
C11_Witness ==
    /\ pc = "halted"
    /\ out.msg # "All specs completed."
    /\ PersistedSet # {}
    /\ ~(MdNames \subseteq PersistedSet)

\* C12: with a folder that exists and holds no *.md document the run goes
\* from its first selection to "done": nothing is selected, no agent and
\* no verification command runs, STATE_FILE is not written, and the run
\* reports completion with status 0.
C12_EmptyCollection ==
    (dirExists /\ MdNames = {}) =>
        /\ pc \in {"start", "selecting", "done"}
        /\ log = <<>>
        /\ spec = None
        /\ file = selFile
        /\ pc = "done" => (out.msg = "All specs completed." /\ out.status = 0)

\* the run is done in a folder that has an entry but no *.md document
C12_Witness ==
    /\ pc = "done"
    /\ dirExists
    /\ MdNames = {}
    /\ dir # {}
    /\ log = <<>>

\* C13: a run that finds a STATE_FILE whose text does not parse ends in
\* "error" with status 1 at its start: nothing is selected, no agent and
\* no verification command runs and the file is left as it is; a run that
\* finds no STATE_FILE starts with the empty list and goes on to select.
C13_Inv ==
    /\ (Malformed /\ pc \notin {"start", "crashed"}) => pc = "error"
    /\ pc = "error" =>
          /\ Malformed
          /\ log = <<>>
          /\ spec = None
          /\ out.status = 1
    /\ (~file.exists /\ pc = "selecting") => state.done = <<>>

C13_Step ==
    /\ (pc = "start" /\ dirExists /\ Malformed) =>
          (pc' = "error" /\ file' = file /\ log' = <<>>)
    /\ (pc = "start" /\ dirExists /\ ~file.exists) =>
          (pc' = "selecting" /\ state'.done = <<>> /\ file' = file)
    /\ pc = "error" => (pc' = "start" /\ file' = file)

C13_MalformedAborts == []C13_Inv /\ [][C13_Step]_vars

\* a later run stopped on the text a crash left
C13_Witness ==
    /\ pc = "error"
    /\ runs > 1
    /\ prev.pc = "crashed"
    /\ Malformed

\* C14: without the folder the run ends with status 1 before the loop:
\* load_state is not called, STATE_FILE is not written, nothing is
\* selected and no agent or verification command runs.
C14_FolderAbsent ==
    ~dirExists =>
        /\ pc \in {"start", "exit1"}
        /\ ~out.loaded
        /\ file = selFile
        /\ log = <<>>
        /\ spec = None
        /\ state.done = <<>>
        /\ pc = "exit1" =>
              (out.status = 1 /\ out.msg = "Specs folder not found")

\* the run has exited on the missing folder
C14_Witness ==
    /\ ~dirExists
    /\ pc = "exit1"
    /\ out.status = 1

\* C15: the step that calls get_next_spec leaves the completed list, the
\* persisted record and the folder as they were, and a second call on what
\* it left returns the same document (or None again).
C15_ResolverNoMutation ==
    [][pc = "selecting" =>
          /\ state' = state
          /\ file' = file
          /\ dir' = dir
          /\ get_next_spec(dir', state'.done) = get_next_spec(dir, state.done)
          /\ pc' = "claude" => spec' = get_next_spec(dir', state'.done)
          /\ pc' = "done" => get_next_spec(dir', state'.done) = None]_vars

\* a document was selected with a non-empty completed list
C15_Witness ==
    /\ pc = "claude"
    /\ state.done # <<>>
    /\ spec = get_next_spec(dir, state.done)
    /\ LastEvent(log).op = "select"

\* C16: outside the commit step the persisted list is main's list; a
\* selection that is not the first of its run comes right after the save of
\* the document selected before it, and the agent and the verification
\* commands of a document come, in order, right after its selection.
C16_OneAtATime ==
    /\ pc \in {"selecting", "claude", "verify", "done", "halted"} =>
          /\ ~Malformed
          /\ (IF file.exists THEN loads(file.text).done ELSE <<>>) = state.done
    /\ \A i \in 1..Len(log) :
          /\ (log[i].op = "select" /\ i > 1) =>
                /\ log[i - 1].op = "save"
                /\ log[i - 1].spec \in PersistedSet
                /\ log[i - 1].spec # log[i].spec
          /\ log[i].op = "claude" =>
                (i > 1 /\ log[i - 1] = Event("select", log[i].spec, 0, 0))
          /\ log[i].op = "save" =>
                (i > 1 /\ log[i - 1] =
                    Event("verify", log[i].spec, Len(VERIFY_COMMANDS), 0))

\* the agent runs for a second document of the run
C16_Witness ==
    /\ pc = "claude"
    /\ NumSaves(log) >= 1
    /\ LastEvent(log).op = "select"
    /\ PersistedSet = ToSet(state.done)

\* C17: within one run the agent is called at most once for a document
\* and each verification command runs at most once for a document.
C17_NoRetry ==
    \A i, j \in 1..Len(log) :
        (i < j /\ log[i].op \in {"select", "claude", "verify"}) =>
            ~(/\ log[i].op = log[j].op
              /\ log[i].spec = log[j].spec
              /\ log[i].cmd = log[j].cmd)

\* a second run failed on the document the run before it failed on
C17_Witness ==
    /\ pc = "halted"
    /\ prev.pc = "halted"
    /\ prev.spec = spec
    /\ runs > 1

\* C18: with a fixed folder and no STATE_FILE at the first start, the
\* completed set, persisted and in main's list, is a prefix of the
\* documents in name order: every document before a completed one is
\* completed.
C18_PrefixClosed ==
    /\ PrefixClosed(PersistedSet)
    /\ PrefixClosed(ToSet(state.done))
    /\ PersistedSet \subseteq MdNames

\* a later run, with two documents completed and one not
C18_Witness ==
    /\ runs > 1
    /\ Cardinality(PersistedSet) = 2
    /\ ~(MdNames \subseteq PersistedSet)

\* C19: starting without STATE_FILE, the persisted list and main's list
\* never hold a name twice, over any runs, failures and restarts.
C19_NoDuplicates ==
    /\ ~Malformed
    /\ NoDuplicates(load_state(file).done)
    /\ NoDuplicates(state.done)

\* a document is committed in the run after the one that failed on it
C19_Witness ==
    /\ LastEvent(log) = Event("save", prev.spec, 0, 0)
    /\ prev.pc = "halted"
    /\ Len(load_state(file).done) >= 2

====
